---- MODULE Spec2Model ----
(***************************************************************************)
(* PhotoBot (src/bot.py): the capture registry, the message ingestion      *)
(* handler, the reaction handler and the album / stop commands.            *)
(*                                                                         *)
(* Every handler runs to completion as one action.  What a handler did is  *)
(* kept in `last`: the handler's name, its input, and the sequence of      *)
(* outbound events (HTTP POSTs, reactions, replies, the delegation to      *)
(* process_commands, a raised exception) in the order the code issues them.*)
(* Text is modelled as sequences: a message's content is a sequence of     *)
(* characters, a URL and the backing file are sequences of tokens.         *)
(*                                                                         *)
(* Every outbound call returns: a POST is answered with a status, and      *)
(* add_reaction, ctx.send and process_commands complete.  The commands are *)
(* wired as add_commands_to_bot wires them (album_name defaults to "").    *)
(***************************************************************************)
EXTENDS Integers, Sequences, FiniteSets, TLC

\* ------------------------------------------------------------------ bounds
MaxAttachments == 2

\* ------------------------------------------------------- program constants
\* message.content[:100]
CaptionLimit == 100
\* r.status_code == 200
StatusOK == 200

\* ------------------------------------------------------------ environment
\* The statuses the remote service answers a POST with: accepted, or not.
Statuses == {StatusOK, 500}

\* self.user and the other members of the guild; ids are integers.
BotUser == [id |-> 900]
Alice == [id |-> 901]
Users == {BotUser, Alice}
ChannelIds == {11, 22}
MessageIds == {7}
\* Messages are created at 1; the clock reads 2 when their handler runs.
CreatedAt == {1}
ClockReadings == {2}

Camera == "camera_with_flash"
CrossMark == "cross_mark"
ThumbsUp == "thumbs_up"

\* The character at position i of a message text: words of six letters
\* separated by blanks, so that position CaptionLimit falls inside a word.
CharAt(i) == IF i % 7 = 0 THEN " " ELSE IF i % 2 = 0 THEN "a" ELSE "b"
Text(n) == [i \in 1..n |-> CharAt(i)]
Contents == {Text(3), Text(CaptionLimit), Text(CaptionLimit + 3)}

\* Attachment URLs as token sequences; the first token is scheme and host.
Host == "https://cdn.discordapp.com"
UrlJpg == <<Host, "/", "attachments", "/", "a", ".", "jpg">>
UrlPngQuery == <<Host, "/", "attachments", "/", "b", ".", "PNG", "?", "ex=1">>
UrlGif == <<Host, "/", "attachments", "/", "c", ".", "gif">>
UrlTxtQuery == <<Host, "/", "attachments", "/", "d", ".", "txt", "?", "f=x", ".", "png">>
UrlHidden == <<Host, "/", "attachments", "/", ".", "png">>
AttachmentUrls == {UrlJpg, UrlPngQuery, UrlGif, UrlTxtQuery, UrlHidden}

\* The attachment lists of the messages: every list of up to MaxAttachments
\* of the two plain URLs, and every URL alone.
SeqsUpTo(S, n) == UNION {[1..k -> S] : k \in 0..n}
AttachmentLists ==
  SeqsUpTo({UrlJpg, UrlGif}, MaxAttachments) \cup {<<u>> : u \in AttachmentUrls}

\* album_name as the command receives it; "" is the default of the command.
AlbumNames == {"", "holiday"}

\* ---------------------------------------------------------- sequence help
MinOf(S) == CHOOSE x \in S : \A y \in S : x <= y
MaxOf(S) == CHOOSE x \in S : \A y \in S : x >= y

\* ------------------------------------------------- urlparse / Path / lower
\* urlparse(url).path: what follows scheme and host, up to the first '?' or '#'.
UrlPath(url) ==
  LET stops == {i \in 2..Len(url) : url[i] \in {"?", "#"}}
      end == IF stops = {} THEN Len(url) ELSE MinOf(stops) - 1
  IN SubSeq(url, 2, end)

\* Path(p).name: the last component of p (after the last '/').
PathName(p) ==
  LET slashes == {i \in 1..Len(p) : p[i] = "/"}
  IN IF slashes = {} THEN p ELSE SubSeq(p, MaxOf(slashes) + 1, Len(p))

\* Path(p).suffix: the name from its last '.', unless the name starts or
\* ends with that '.'.
PathSuffix(p) ==
  LET name == PathName(p)
      dots == {i \in 1..Len(name) : name[i] = "."}
  IN IF dots = {} THEN <<>>
     ELSE LET i == MaxOf(dots)
          IN IF 1 < i /\ i < Len(name) THEN SubSeq(name, i, Len(name)) ELSE <<>>

\* str.lower() on the tokens the model uses.
LowerToken(t) ==
  CASE t = "PNG" -> "png"
    [] t = "JPG" -> "jpg"
    [] OTHER -> t
Lower(s) == [i \in 1..Len(s) |-> LowerToken(s[i])]

\* self.image_suffixes
image_suffixes == << <<".", "jpg">>, <<".", "jpeg">>, <<".", "webp">>, <<".", "png">> >>
InList(x, list) == \E i \in 1..Len(list) : list[i] = x

\* The indices in I in ascending order (a list comprehension with an `if`
\* keeps the order of the list it reads).
Ascending(I) ==
  [k \in 1..Cardinality(I) |-> CHOOSE i \in I : Cardinality({j \in I : j <= i}) = k]

\* ------------------------------------------------------------- str / dict
\* str(x) of an integer id.
Str(n) == ToString(n)

\* A dict is the sequence of its <<key, value>> items in insertion order.
DictHas(d, k) == \E i \in 1..Len(d) : d[i][1] = k
\* d.get(k, default)
DictGet(d, k, default) ==
  IF DictHas(d, k) THEN d[CHOOSE i \in 1..Len(d) : d[i][1] = k][2] ELSE default
\* d[k] = v: replaces the value of an existing key in place, else appends.
DictSet(d, k, v) ==
  IF DictHas(d, k)
  THEN [i \in 1..Len(d) |-> IF d[i][1] = k THEN <<k, v>> ELSE d[i]]
  ELSE Append(d, <<k, v>>)

\* --------------------------------------------------------------- json
\* json.dump of a dict of str -> bool: the text as a sequence of tokens,
\* {"k1": true, "k2": false}.
JsonBool(b) == IF b THEN "true" ELSE "false"
JsonItem(item) == <<item[1], ":", JsonBool(item[2])>>
RECURSIVE JsonItems(_)
JsonItems(d) ==
  IF d = <<>> THEN <<>>
  ELSE IF Len(d) = 1 THEN JsonItem(d[1])
  ELSE JsonItem(d[1]) \o <<",">> \o JsonItems(Tail(d))
JsonDump(d) == <<"{">> \o JsonItems(d) \o <<"}">>

\* json.load on the texts the backing file can hold (a dump of the registry,
\* or the beginning of one): [ok |-> FALSE] when the text is not a complete
\* JSON object (the code lets json.JSONDecodeError propagate), else the dict
\* read; a key that occurs twice keeps its place and takes the later value.
JsonPunct == {"{", "}", ":", ","}
JsonWellFormed(t) ==
  /\ Len(t) >= 2 /\ t[1] = "{" /\ t[Len(t)] = "}"
  /\ \/ Len(t) = 2
     \/ /\ (Len(t) - 1) % 4 = 0
        /\ \A i \in 2..(Len(t) - 1) :
             CASE (i - 2) % 4 = 0 -> t[i] \notin JsonPunct \cup {"true", "false"}
               [] (i - 2) % 4 = 1 -> t[i] = ":"
               [] (i - 2) % 4 = 2 -> t[i] \in {"true", "false"}
               [] OTHER -> t[i] = ","
RECURSIVE JsonRead(_, _, _)
JsonRead(t, i, d) ==
  IF i + 2 > Len(t) - 1 THEN d
  ELSE JsonRead(t, i + 4, DictSet(d, t[i], t[i + 2] = "true"))
JsonLoad(t) ==
  IF JsonWellFormed(t) THEN [ok |-> TRUE, value |-> JsonRead(t, 2, <<>>)]
  ELSE [ok |-> FALSE, value |-> <<>>]

\* ------------------------------------------------------------- endpoints
\* db_url, and the three URLs __init__ derives from it.
DbUrl == "https://db.example/"
photo_url == <<DbUrl, "photo">>
album_url == <<DbUrl, "album">>
delete_photo_url == <<DbUrl, "delete_photo_by_url">>

\* ------------------------------------------------------------------ state
VARIABLES
  channels,   \* self.channels: dict of str(channel id) -> bool
  file,       \* channels.json: [exists |-> BOOLEAN, text |-> tokens]
  status,     \* "running", "stopped" (process not running), "failed" (__init__
              \* raised), "blocked" (inside a POST that does not return)
  msg,        \* the latest message, as Discord holds it: attachments and
              \* reactions; history: what was submitted for it
  last,       \* the handler that ran last: its name, input and outbound events
  lastSet     \* history: per channel key, the value of the latest update_capture

vars == <<channels, file, status, msg, last, lastSet>>

NoFile == [exists |-> FALSE, text |-> <<>>]
NoMsg == [exists |-> FALSE]
ChannelKeys == {Str(c) : c \in ChannelIds}

\* Events a handler issues.
Post(url, body, st) == [type |-> "post", url |-> url, body |-> body, status |-> st]
Send(text) == [type |-> "send", text |-> text]
AddReaction(emoji) == [type |-> "add_reaction", emoji |-> emoji]
ProcessCommands == [type |-> "process_commands"]
ChangePresence == [type |-> "change_presence"]
Raise(error) == [type |-> "raise", error |-> error]

\* ---------------------------------------------------------------- __init__
\* Variant: a file that does not parse is read as an empty registry.
LoadChannelsLenient(f) ==
  IF ~f.exists \/ ~JsonLoad(f.text).ok THEN [ok |-> TRUE, value |-> <<>>]
  ELSE JsonLoad(f.text)

\* The registry __init__ builds from the backing file: empty when there is no
\* file, the dict read otherwise; not ok when json.load raises.
LoadChannels(f) ==
  IF ~f.exists THEN [ok |-> TRUE, value |-> <<>>] ELSE JsonLoad(f.text)

\* ---------------------------------------------------------- update_capture
\* self.channels[channel_id] = capture, then the whole dict is written to a
\* file opened with 'w'.
\* Variant: self.channels.setdefault(channel_id, capture), which leaves the
\* value of an existing entry alone.
update_capture_setdefault(chs, channel_id, capture) ==
  LET new == IF DictHas(chs, channel_id) THEN chs ELSE DictSet(chs, channel_id, capture)
  IN [channels |-> new, file |-> [exists |-> TRUE, text |-> JsonDump(new)],
      passed |-> [called |-> TRUE, value |-> capture]]
\* Variant: the file is written before the dict is updated.
update_capture_stale_write(chs, channel_id, capture) ==
  [channels |-> DictSet(chs, channel_id, capture),
   file |-> [exists |-> TRUE, text |-> JsonDump(chs)],
   passed |-> [called |-> TRUE, value |-> capture]]
\* `passed` is not program state: it records the call for lastSet.
update_capture(chs, channel_id, capture) ==
  LET new == DictSet(chs, channel_id, capture)
  IN [channels |-> new, file |-> [exists |-> TRUE, text |-> JsonDump(new)],
      passed |-> [called |-> TRUE, value |-> capture]]

\* What the file may hold when the process is killed inside update_capture:
\* the old content (before open), nothing (open(path, 'w') truncated it), or
\* as much of the new text as had reached the disk.
InterruptedFiles(old, new_text) ==
  {old} \cup {[exists |-> TRUE, text |-> SubSeq(new_text, 1, k)] : k \in 0..Len(new_text)}

\* ------------------------------------------------------------ handle_image
\* The POST handle_image issues, given the status the service answers with.
\* `att` is not part of the body: it records which attachment of the message
\* the POST is for.
handle_image_post(image_url, channel_id, uploader_id, upload_time, caption, message_id, st, att) ==
  [type |-> "post", url |-> photo_url,
   body |-> [url |-> image_url, channelId |-> channel_id, uploaderId |-> uploader_id,
             uploadTime |-> upload_time, caption |-> caption, messageId |-> message_id],
   status |-> st, att |-> att]
\* Its return value.
handle_image_result(st) == st = StatusOK

\* -------------------------------------------------------------- on_message
\* Variant: the default of get is True (capture is opt-out).
CaptureOnOptOut(chs, channel_id) == DictGet(chs, channel_id, TRUE)
\* self.channels.get(channel_id, False)
CaptureOn(chs, channel_id) == DictGet(chs, channel_id, FALSE)

\* Variant: the suffix is taken from the whole URL, query string included.
IsImageOfWholeUrl(url) == InList(Lower(PathSuffix(url)), image_suffixes)
\* The `if` of the list comprehension that builds image_urls.
IsImage(url) == InList(Lower(PathSuffix(UrlPath(url))), image_suffixes)
\* The attachments (by index) image_urls is built from.
ImageIdx(attachments) ==
  Ascending({i \in 1..Len(attachments) : IsImage(attachments[i])})

\* Variant: a word-aware cut, at the last blank within the limit.
CaptionWordAware(content) ==
  IF Len(content) <= CaptionLimit THEN content
  ELSE LET blanks == {i \in 1..CaptionLimit : content[i] = " "}
       IN SubSeq(content, 1, IF blanks = {} THEN CaptionLimit ELSE MaxOf(blanks))
\* message.content[:100]
Caption(content) == SubSeq(content, 1, IF Len(content) < CaptionLimit THEN Len(content) ELSE CaptionLimit)

\* message.created_at.utcnow().replace(microsecond=0).isoformat() + 'Z':
\* utcnow() is a classmethod, so the value is the clock's reading, not
\* created_at.
UploadTime(created_at, now) == <<Str(now), "Z">>

\* Variant: all(successes) gates the reaction.
ReactionEventsAll(successes) ==
  IF \A i \in 1..Len(successes) : successes[i] THEN <<AddReaction(Camera)>> ELSE <<>>
\* any(successes), then add the reaction.
ReactionEvents(successes) ==
  IF \E i \in 1..Len(successes) : successes[i] THEN <<AddReaction(Camera)>> ELSE <<>>

\* Variant: the message is handed to process_commands first, and the images
\* are submitted after it.
on_message_delegate_first(chs, message, now, statuses) ==
  IF message.author = BotUser THEN <<>>
  ELSE IF ~CaptureOn(chs, Str(message.channel)) \/ message.attachments = <<>>
  THEN <<ProcessCommands>>
  ELSE LET idx == ImageIdx(message.attachments)
       IN <<ProcessCommands>>
          \o [k \in 1..Len(idx) |->
                handle_image_post(UrlPath(message.attachments[idx[k]]), Str(message.channel),
                                  Str(message.author.id), UploadTime(message.created_at, now),
                                  Caption(message.content), Str(message.id), statuses[k], idx[k])]
          \o ReactionEvents([k \in 1..Len(idx) |-> handle_image_result(statuses[k])])

\* Variant: the `return` after the first process_commands is missing, so a
\* message with capture off or without attachments runs on to the end.
on_message_no_return(chs, message, now, statuses) ==
  IF message.author = BotUser THEN <<>>
  ELSE IF ~CaptureOn(chs, Str(message.channel)) \/ message.attachments = <<>>
  THEN <<ProcessCommands, ProcessCommands>>
  ELSE LET idx == ImageIdx(message.attachments)
       IN [k \in 1..Len(idx) |->
             handle_image_post(UrlPath(message.attachments[idx[k]]), Str(message.channel),
                               Str(message.author.id), UploadTime(message.created_at, now),
                               Caption(message.content), Str(message.id), statuses[k], idx[k])]
          \o ReactionEvents([k \in 1..Len(idx) |-> handle_image_result(statuses[k])])
          \o <<ProcessCommands>>
\* The events of on_message for `message`, when the clock reads `now` and the
\* service answers the k-th POST with statuses[k].
on_message(chs, message, now, statuses) ==
  LET channel_id == Str(message.channel)
      idx == ImageIdx(message.attachments)
      posts == [k \in 1..Len(idx) |->
                  handle_image_post(UrlPath(message.attachments[idx[k]]), channel_id,
                                    Str(message.author.id),
                                    UploadTime(message.created_at, now),
                                    Caption(message.content), Str(message.id),
                                    statuses[k], idx[k])]
      successes == [k \in 1..Len(idx) |-> handle_image_result(statuses[k])]
  IN IF message.author = BotUser THEN <<>>
     ELSE IF ~CaptureOn(chs, channel_id) \/ message.attachments = <<>>
     THEN <<ProcessCommands>>
     ELSE posts \o ReactionEvents(successes) \o <<ProcessCommands>>

\* ------------------------------------------------------------ delete_photo
\* The POST delete_photo issues (to self.album_url).
delete_photo_post(image_url, requester_id, st) ==
  Post(album_url, [photoId |-> image_url, requesterId |-> requester_id], st)

\* ----------------------------------------------------- on_raw_reaction_add
\* The message the handler reads: Discord's message with the reaction of the
\* event on it.
FetchMessage(m, payload) ==
  [m EXCEPT !.reactions = Append(@, [emoji |-> payload.emoji, me |-> payload.member = BotUser])]

\* Variant: the test evaluates, and falls through its `pass`.
CameraGateFallsThrough(message) == "pass"
\* `if not ('camera', True) in any([...]): pass`.  any() returns a bool and
\* `in` asks the bool for its members, which raises TypeError whatever the
\* reactions are; the handler ends there.
CameraGate(message) == "raise"

\* payload.emoji == 'cross mark'
IsCrossMark(emoji) == emoji = CrossMark
\* The `if` of the list comprehension of the deletion: Path on the whole URL.
IsImageRaw(url) == InList(Lower(PathSuffix(url)), image_suffixes)
DeleteIdx(attachments) ==
  Ascending({i \in 1..Len(attachments) : IsImageRaw(attachments[i])})

\* How many POSTs the handler issues.
DeleteCount(message, payload) ==
  IF CameraGate(message) = "raise" \/ ~IsCrossMark(payload.emoji) THEN 0
  ELSE Len(DeleteIdx(message.attachments))

\* The events of on_raw_reaction_add.  `payload.member == self.user` only
\* guards a `pass`.
on_raw_reaction_add(message, payload, statuses) ==
  LET idx == DeleteIdx(message.attachments)
  IN IF CameraGate(message) = "raise" THEN <<Raise("TypeError")>>
     ELSE IF IsCrossMark(payload.emoji)
     THEN [k \in 1..Len(idx) |->
             delete_photo_post(message.attachments[idx[k]], Str(payload.user_id), statuses[k])]
     ELSE <<>>

\* ------------------------------------------------------------ capture_album
\* ctx.channel.members: the bot and the users that see the channel.
ChannelMembers == <<BotUser, Alice>>

\* list.remove(x): without the first x; not ok (ValueError) when x is absent.
ListRemove(list, x) ==
  LET I == {i \in 1..Len(list) : list[i] = x}
  IN IF I = {} THEN [ok |-> FALSE, value |-> list]
     ELSE [ok |-> TRUE,
           value |-> SubSeq(list, 1, MinOf(I) - 1) \o SubSeq(list, MinOf(I) + 1, Len(list))]

\* str.title() on the album names the model uses.
Title(name) == CASE name = "holiday" -> "Holiday" [] OTHER -> name

\* What the album endpoint answers: a status and the albumUrl field of the
\* JSON body ("None" when the body has no such field).
None == "None"
AlbumResponses ==
  {[status |-> StatusOK, albumUrl |-> "https://albums.example/1"],
   [status |-> StatusOK, albumUrl |-> None],
   [status |-> 500, albumUrl |-> None]}

\* update_channel: the POST, and the value returned.
update_channel_post(channel_id, album_name, members, response) ==
  Post(album_url, [channelId |-> channel_id, name |-> album_name, members |-> members],
       response.status)
update_channel_result(response) ==
  IF response.status = StatusOK THEN response.albumUrl ELSE None

RejectText == "Error capturing album. Please provide an album name when capturing a new channel."
FailText == "Error capturing album. Please check the logs for details."
StopText == "Photos no longer being captured in this channel."

\* is_new = not self.channels.get(channel_id, False)
IsNew(chs, channel_id) == ~DictGet(chs, channel_id, FALSE)
\* Variant: `if is_new and album_name`.
RejectsWhenNamed(is_new, album_name) == is_new /\ album_name # ""
\* if is_new and not album_name
Rejects(is_new, album_name) == is_new /\ album_name = ""

\* The replies after update_channel returned url.
CaptureReplies(url, is_new, album_name) ==
  IF url \notin {None, ""}
  THEN << Send(IF is_new THEN <<"New album created: ", album_name>>
               ELSE IF album_name = "" THEN <<"Users in channel updated.">>
               ELSE <<"Album renamed to: ", album_name>>),
          Send(<<"Album is available at: ", url>>) >>
  ELSE <<Send(FailText)>>

\* Variant: a failed album update sets the flag back to False.
capture_album_rollback(chs, f, channel, album_name, response) ==
  LET channel_id == Str(channel)
      is_new == IsNew(chs, channel_id)
      members == ListRemove([i \in 1..Len(ChannelMembers) |-> Str(ChannelMembers[i].id)],
                            Str(BotUser.id))
      upd == update_capture(chs, channel_id, TRUE)
      undo == update_capture(upd.channels, channel_id, FALSE)
      name == Title(album_name)
      failed == update_channel_result(response) \in {None, ""}
  IN IF ~members.ok
     THEN [channels |-> chs, file |-> f, set |-> FALSE, passed |-> upd.passed,
           events |-> <<Raise("ValueError")>>]
     ELSE IF Rejects(is_new, album_name)
     THEN [channels |-> chs, file |-> f, set |-> FALSE, passed |-> upd.passed,
           events |-> <<Send(RejectText)>>]
     ELSE [channels |-> IF failed THEN undo.channels ELSE upd.channels,
           file |-> IF failed THEN undo.file ELSE upd.file,
           set |-> TRUE,
           passed |-> IF failed THEN undo.passed ELSE upd.passed,
           events |-> <<update_channel_post(channel_id, name, members.value, response),
                        ChangePresence>>
                      \o CaptureReplies(update_channel_result(response), is_new, name)]

\* capture_album: the registry and file it leaves, and its events.
capture_album(chs, f, channel, album_name, response) ==
  LET channel_id == Str(channel)
      is_new == IsNew(chs, channel_id)
      members == ListRemove([i \in 1..Len(ChannelMembers) |-> Str(ChannelMembers[i].id)],
                            Str(BotUser.id))
      upd == update_capture(chs, channel_id, TRUE)
      name == Title(album_name)
  IN IF ~members.ok
     THEN [channels |-> chs, file |-> f, set |-> FALSE, passed |-> upd.passed,
           events |-> <<Raise("ValueError")>>]
     ELSE IF Rejects(is_new, album_name)
     THEN [channels |-> chs, file |-> f, set |-> FALSE, passed |-> upd.passed,
           events |-> <<Send(RejectText)>>]
     ELSE [channels |-> upd.channels, file |-> upd.file, set |-> TRUE, passed |-> upd.passed,
           events |-> <<update_channel_post(channel_id, name, members.value, response),
                        ChangePresence>>
                      \o CaptureReplies(update_channel_result(response), is_new, name)]

\* stop_capture_album
stop_capture_album(chs, channel) ==
  LET upd == update_capture(chs, Str(channel), FALSE)
  IN [channels |-> upd.channels, file |-> upd.file, set |-> TRUE, passed |-> upd.passed,
      events |-> <<Send(StopText)>>]

\* ------------------------------------------------------------------ inputs
\* The messages handled.  The bot posts text replies only; users post a short
\* text with any of the attachment lists, or any of the texts with one image.
Message(i, c, u, t, a, ca) ==
  [id |-> i, channel |-> c, author |-> u, content |-> t, attachments |-> a, created_at |-> ca]
Messages ==
  {Message(i, c, BotUser, Text(3), <<>>, ca) :
     i \in MessageIds, c \in ChannelIds, ca \in CreatedAt}
  \cup
  {Message(i, c, Alice, Text(3), a, ca) :
     i \in MessageIds, c \in ChannelIds, a \in AttachmentLists, ca \in CreatedAt}
  \cup
  {Message(i, c, Alice, t, <<UrlJpg>>, ca) :
     i \in MessageIds, c \in ChannelIds, t \in Contents, ca \in CreatedAt}

Emojis == {CrossMark, ThumbsUp, Camera}
Payloads ==
  {[member |-> u, user_id |-> u.id, emoji |-> e] : u \in Users, e \in Emojis}

\* How many POSTs on_message issues.
PostCount(chs, message) ==
  IF message.author = BotUser \/ ~CaptureOn(chs, Str(message.channel)) THEN 0
  ELSE Len(ImageIdx(message.attachments))

\* What the service was sent for a message: of the events ev of on_message,
\* the attachment and the URL of each image submission, in order.
Submitted(ev) ==
  LET idx == Ascending({i \in 1..Len(ev) : ev[i].type = "post"})
  IN [k \in 1..Len(idx) |-> [att |-> ev[idx[k]].att, url |-> ev[idx[k]].body.url]]

\* ------------------------------------------------------------------- Init
Init ==
  /\ file = NoFile
  /\ channels = LoadChannels(NoFile).value
  /\ status = "running"
  /\ msg = NoMsg
  /\ last = [handler |-> "__init__", input |-> NoFile, events |-> <<>>]
  /\ lastSet = [k \in ChannelKeys |-> [called |-> FALSE, value |-> FALSE]]

\* ---------------------------------------------------------------- actions
OnMessage ==
  /\ status = "running"
  /\ \E message \in Messages, now \in ClockReadings :
       \E statuses \in [1..PostCount(channels, message) -> Statuses] :
         LET ev == on_message(channels, message, now, statuses)
         IN /\ last' = [handler |-> "on_message",
                        input |-> [message |-> message, now |-> now], events |-> ev]
            /\ msg' = [exists |-> TRUE, attachments |-> message.attachments,
                       reactions |-> [k \in 1..Cardinality({i \in 1..Len(ev) : ev[i].type = "add_reaction"})
                                        |-> [emoji |-> Camera, me |-> TRUE]],
                       submitted |-> Submitted(ev)]
  /\ UNCHANGED <<channels, file, status, lastSet>>

OnRawReactionAdd ==
  /\ status = "running"
  /\ msg.exists
  /\ \E payload \in Payloads :
       LET message == FetchMessage(msg, payload)
       IN \E statuses \in [1..DeleteCount(message, payload) -> Statuses] :
            last' = [handler |-> "on_raw_reaction_add",
                     input |-> [payload |-> payload, message |-> message],
                     events |-> on_raw_reaction_add(message, payload, statuses)]
  /\ UNCHANGED <<channels, file, status, msg, lastSet>>

CaptureAlbum ==
  /\ status = "running"
  /\ \E channel \in ChannelIds, album_name \in AlbumNames, response \in AlbumResponses :
       LET r == capture_album(channels, file, channel, album_name, response)
       IN /\ channels' = r.channels
          /\ file' = r.file
          /\ lastSet' = IF r.set THEN [lastSet EXCEPT ![Str(channel)] = r.passed] ELSE lastSet
          /\ last' = [handler |-> "capture_album",
                      input |-> [channel |-> channel, album_name |-> album_name,
                                 response |-> IF r.set THEN response ELSE None],
                      events |-> r.events]
  /\ UNCHANGED <<status, msg>>

StopCaptureAlbum ==
  /\ status = "running"
  /\ \E channel \in ChannelIds :
       LET r == stop_capture_album(channels, channel)
       IN /\ channels' = r.channels
          /\ file' = r.file
          /\ lastSet' = [lastSet EXCEPT ![Str(channel)] = r.passed]
          /\ last' = [handler |-> "stop_capture_album", input |-> [channel |-> channel],
                      events |-> r.events]
  /\ UNCHANGED <<status, msg>>

\* The process ends between two events: what is in memory is lost.
Shutdown ==
  /\ status = "running"
  /\ status' = "stopped"
  /\ channels' = <<>>
  /\ last' = [handler |-> "shutdown", input |-> None, events |-> <<>>]
  /\ UNCHANGED <<file, msg, lastSet>>

\* The process starts: __init__ reads the backing file.
Start ==
  /\ status = "stopped"
  /\ LET r == LoadChannels(file)
     IN /\ status' = IF r.ok THEN "running" ELSE "failed"
        /\ channels' = r.value
        /\ last' = [handler |-> "__init__", input |-> file,
                    events |-> IF r.ok THEN <<>> ELSE <<Raise("JSONDecodeError")>>]
  /\ UNCHANGED <<file, msg, lastSet>>

\* The process is killed while a command (an accepted capture_album, or
\* stop_capture_album) is inside update_capture.  The call counts in lastSet
\* when its write was complete.
UpdateCaptureInterrupted ==
  /\ status = "running"
  /\ \E channel \in ChannelIds, capture \in BOOLEAN, album_name \in AlbumNames :
       /\ capture => ~Rejects(IsNew(channels, Str(channel)), album_name)
       /\ ~capture => album_name = ""
       /\ LET upd == update_capture(channels, Str(channel), capture)
          IN \E f \in InterruptedFiles(file, upd.file.text) :
               /\ file' = f
               /\ lastSet' = IF f = upd.file THEN [lastSet EXCEPT ![Str(channel)] = upd.passed]
                             ELSE lastSet
  /\ last' = [handler |-> "killed", input |-> None, events |-> <<>>]
  /\ status' = "stopped"
  /\ channels' = <<>>
  /\ UNCHANGED msg

Next ==
  \/ OnMessage
  \/ OnRawReactionAdd
  \/ CaptureAlbum
  \/ StopCaptureAlbum
  \/ Shutdown
  \/ Start

Spec == Init /\ [][Next]_vars

\* The same program on a host that may kill the process inside update_capture.
NextCrash ==
  \/ Next
  \/ UpdateCaptureInterrupted

SpecCrash == Init /\ [][NextCrash]_vars

\* ------------------------------------------------------------------ claims
\* What the claims read off the state.
Events == last.events
HandledMessage == last.handler = "on_message"
TheMessage == last.input.message
\* The registry holds the entry <<str(c), TRUE>>.
FlagIsTrue(c) == \E i \in 1..Len(channels) : channels[i] = <<Str(c), TRUE>>
HasEntry(chs, c) == \E i \in 1..Len(chs) : chs[i][1] = Str(c)
PhotoPostIdx == {i \in 1..Len(Events) : Events[i].type = "post" /\ Events[i].url = photo_url}
AnyPostIdx == {i \in 1..Len(Events) : Events[i].type = "post"}
ReactionIdx == {i \in 1..Len(Events) : Events[i].type = "add_reaction"}
DelegationIdx == {i \in 1..Len(Events) : Events[i].type = "process_commands"}
AllowedExtensions == {<<".", "jpg">>, <<".", "jpeg">>, <<".", "webp">>, <<".", "png">>}
\* The extension of an attachment: lower-cased, from the path of its URL.
Extension(url) == Lower(PathSuffix(UrlPath(url)))

\* C1: a message handled in a channel whose capture flag is false or absent
\* issues no POST and adds no reaction; the message Discord holds bears no
\* reaction of the bot either.
C1_CaptureOffIsSilent ==
  (HandledMessage /\ ~FlagIsTrue(TheMessage.channel)) =>
     /\ AnyPostIdx = {}
     /\ ReactionIdx = {}
     /\ msg.reactions = <<>>

\* A message with an image was handled in a channel that was started and then
\* stopped (its entry is there, with False), and only delegated.
C1_Witness ==
  /\ HandledMessage
  /\ TheMessage.author = Alice
  /\ TheMessage.attachments = <<UrlJpg>>
  /\ HasEntry(channels, TheMessage.channel)
  /\ ~FlagIsTrue(TheMessage.channel)
  /\ Events = <<ProcessCommands>>

\* C2: every image submission of a handled message is for one of its
\* attachments whose extension is in the allow-list, and carries the path of
\* that attachment: an attachment with another extension is never submitted.
C2_OnlyAllowedExtensionsSubmitted ==
  \A i \in PhotoPostIdx :
     /\ HandledMessage
     /\ Events[i].att \in 1..Len(TheMessage.attachments)
     /\ Extension(TheMessage.attachments[Events[i].att]) \in AllowedExtensions
     /\ Events[i].body.url = UrlPath(TheMessage.attachments[Events[i].att])

\* With capture on, a message whose only attachment is d.txt?f=x.png was
\* handled and nothing was submitted.
C2_Witness ==
  /\ HandledMessage
  /\ FlagIsTrue(TheMessage.channel)
  /\ TheMessage.attachments = <<UrlTxtQuery>>
  /\ Events = <<ProcessCommands>>

C4_RejectedStartChangesNothing ==
  [][ (/\ last'.handler = "capture_album"
       /\ last'.input.album_name = ""
       /\ ~HasEntry(channels, last'.input.channel))
      => (/\ last'.events = <<Send(RejectText)>>
          /\ channels' = channels
          /\ file' = file
          /\ lastSet' = lastSet) ]_vars

\* A start without a name was rejected on a channel that still has no entry,
\* while the other channel is captured.
C4_Witness ==
  /\ last.handler = "capture_album"
  /\ last.input.album_name = ""
  /\ ~HasEntry(channels, last.input.channel)
  /\ last.events = <<Send(RejectText)>>
  /\ Len(channels) = 1
  /\ file.exists

\* C5: a reaction event issues a POST only if the message it is on bears the
\* camera reaction of the bot.
HandledReaction == last.handler = "on_raw_reaction_add"
BearsBotCamera(message) ==
  \E i \in 1..Len(message.reactions) :
     message.reactions[i].emoji = Camera /\ message.reactions[i].me
C5_DeletionOnlyOnCapturedMessage ==
  (HandledReaction /\ AnyPostIdx # {}) => BearsBotCamera(last.input.message)

\* A user added the cross mark to a message with an image that the bot never
\* reacted to, and no POST was issued.
C5_Witness ==
  /\ HandledReaction
  /\ last.input.payload.emoji = CrossMark
  /\ last.input.payload.member = Alice
  /\ last.input.message.attachments = <<UrlJpg>>
  /\ ~BearsBotCamera(last.input.message)
  /\ AnyPostIdx = {}

\* C6: while the bot runs, get(c) is the value passed to the latest set(c, .),
\* False when there was none, and no channel id has two entries.
C6_GetReturnsLatestSet ==
  status = "running" =>
    /\ \A k \in ChannelKeys :
         CaptureOn(channels, k) = (lastSet[k].called /\ lastSet[k].value)
    /\ \A i, j \in 1..Len(channels) : channels[i][1] = channels[j][1] => i = j

\* A message with an image is handled (get is called) in a channel whose
\* latest set passed False, while the other channel's passed True.
C6_Witness ==
  /\ HandledMessage
  /\ TheMessage.attachments = <<UrlJpg>>
  /\ lastSet[Str(TheMessage.channel)] = [called |-> TRUE, value |-> FALSE]
  /\ \E k \in ChannelKeys : lastSet[k] = [called |-> TRUE, value |-> TRUE]
  /\ Events = <<ProcessCommands>>

\* C7: while the bot runs, reading the backing file as __init__ does gives
\* the registry in memory, and once the registry was set the file exists.
C7_FileHoldsRegistry ==
  status = "running" =>
    /\ LoadChannels(file) = [ok |-> TRUE, value |-> channels]
    /\ (\E k \in ChannelKeys : lastSet[k].called) => file.exists

\* The bot was started again and read a registry of two channels, one on and
\* one off.
C7_Witness ==
  /\ status = "running"
  /\ last.handler = "__init__"
  /\ Len(channels) = 2
  /\ \E i, j \in 1..2 : channels[i][2] /\ ~channels[j][2]

\* C8: the backing file, when it exists, always holds a complete map: it is
\* never empty or cut short, at whatever point of set the process stops.
C8_FileIsAlwaysComplete ==
  file.exists => JsonLoad(file.text).ok

\* C9: the caption of every image submission is the first CaptionLimit
\* characters of the message text, the whole text when it is no longer.
C9_CaptionIsPrefix ==
  HandledMessage =>
    \A i \in PhotoPostIdx :
       LET caption == Events[i].body.caption
           text == TheMessage.content
       IN /\ Len(caption) = IF Len(text) <= CaptionLimit THEN Len(text) ELSE CaptionLimit
          /\ \A j \in 1..Len(caption) : caption[j] = text[j]

\* A text longer than the limit was cut inside a word: neither the last
\* character kept nor the first one dropped is a blank.
C9_Witness ==
  /\ HandledMessage
  /\ Len(TheMessage.content) > CaptionLimit
  /\ TheMessage.content[CaptionLimit] # " "
  /\ TheMessage.content[CaptionLimit + 1] # " "
  /\ \E i \in PhotoPostIdx : Len(Events[i].body.caption) = CaptionLimit

AlbumPostIdx == {i \in 1..Len(Events) : Events[i].type = "post" /\ Events[i].url = album_url}
HandledCapture == last.handler = "capture_album"
C11_StartOnKnownChannelAccepted ==
  (/\ HandledCapture
   /\ last.input.album_name = ""
   /\ HasEntry(channels, last.input.channel)) =>
     /\ FlagIsTrue(last.input.channel)
     /\ Cardinality(AlbumPostIdx) = 1
     /\ \A i \in 1..Len(Events) : Events[i] # Send(RejectText)

\* ------------------------------------------------- delete_photo on its own
\* What delete_photo returns: the status code of the response.
delete_photo_result(st) == st

\* delete_photo is called with a URL and a requester id, and the service
\* answers.
DeletePhoto ==
  /\ status = "running"
  /\ \E image_url \in {UrlJpg, UrlPngQuery}, requester \in Users, st \in Statuses :
       last' = [handler |-> "delete_photo",
                input |-> [image_url |-> image_url, requester_id |-> Str(requester.id)],
                events |-> <<delete_photo_post(image_url, Str(requester.id), st)>>,
                result |-> delete_photo_result(st)]
  /\ UNCHANGED <<channels, file, status, msg, lastSet>>

\* The program with delete_photo as an operation of its own.
NextDelete ==
  \/ Next
  \/ DeletePhoto

SpecDelete == Init /\ [][NextDelete]_vars

\* C12: every deletion request is a POST to delete_photo_url, never to
\* photo_url or album_url, and delete_photo returns the status code of the
\* response to it.
DeletionPostIdx ==
  {i \in 1..Len(Events) : Events[i].type = "post" /\ "photoId" \in DOMAIN Events[i].body}
C12_DeletionGoesToDeletionEndpoint ==
  /\ \A i \in DeletionPostIdx :
       /\ Events[i].url = delete_photo_url
       /\ Events[i].url \notin {photo_url, album_url}
  /\ last.handler = "delete_photo" =>
       /\ Cardinality(DeletionPostIdx) = 1
       /\ \A i \in DeletionPostIdx : last.result = Events[i].status

\* C13: a reaction event whose member is the bot itself issues no deletion
\* request, whatever its emoji and whatever the message it is on.
ReactionByBot == HandledReaction /\ last.input.payload.member = BotUser
C13_BotReactionDeletesNothing ==
  ReactionByBot => DeletionPostIdx = {}

\* The bot's own cross mark on a message with an image that bears the bot's
\* camera, and no deletion request.
C13_Witness ==
  /\ ReactionByBot
  /\ last.input.payload.emoji = CrossMark
  /\ BearsBotCamera(last.input.message)
  /\ last.input.message.attachments = <<UrlJpg>>
  /\ DeletionPostIdx = {}

\* C14: when a user other than the bot adds the cross mark to a message that
\* bears the bot's camera, exactly one deletion request is issued for every
\* attachment of the message whose extension is in the allow-list, with the
\* URL of that attachment and the id of the reacting user; a reaction with
\* another emoji issues no deletion request.
ReactionByUser == HandledReaction /\ last.input.payload.member # BotUser
C14_CrossMarkDeletesEveryImage ==
  ReactionByUser =>
    IF last.input.payload.emoji = CrossMark /\ BearsBotCamera(last.input.message)
    THEN LET attachments == last.input.message.attachments
             images == {a \in 1..Len(attachments) :
                          Extension(attachments[a]) \in AllowedExtensions}
         IN /\ Cardinality(DeletionPostIdx) = Cardinality(images)
            /\ \A a \in images :
                 \E i \in DeletionPostIdx :
                    Events[i].body = [photoId |-> attachments[a],
                                      requesterId |-> Str(last.input.payload.user_id)]
    ELSE last.input.payload.emoji # CrossMark => DeletionPostIdx = {}

\* ------------------------------------------------ a remote call that hangs
\* requests.post is a synchronous call made on the thread of the event loop:
\* until it returns, the loop dispatches no event.  Every handler is guarded
\* by status = "running"; status is "blocked" while the thread is inside a
\* POST that gets no response.
Pending == 0

\* on_message whose k-th POST never returns: the POSTs before it were
\* answered, and the handler is still inside handle_image.
OnMessageHangs ==
  /\ status = "running"
  /\ \E message \in Messages, now \in ClockReadings :
       \E statuses \in [1..PostCount(channels, message) -> Statuses] :
         \E k \in 1..PostCount(channels, message) :
           LET ev == on_message(channels, message, now, statuses)
           IN /\ last' = [handler |-> "on_message",
                          input |-> [message |-> message, now |-> now],
                          events |-> [i \in 1..k |->
                                        IF i < k THEN ev[i]
                                        ELSE [ev[i] EXCEPT !.status = Pending]]]
              /\ msg' = [exists |-> TRUE, attachments |-> message.attachments,
                         reactions |-> <<>>, submitted |-> Submitted(SubSeq(ev, 1, k))]
  /\ status' = "blocked"
  /\ UNCHANGED <<channels, file, lastSet>>

\* capture_album whose POST never returns: update_capture is done, and the
\* handler is still inside update_channel.
CaptureAlbumHangs ==
  /\ status = "running"
  /\ \E channel \in ChannelIds, album_name \in AlbumNames :
       LET r == capture_album(channels, file, channel, album_name,
                              [status |-> Pending, albumUrl |-> None])
       IN /\ r.set
          /\ channels' = r.channels
          /\ file' = r.file
          /\ lastSet' = [lastSet EXCEPT ![Str(channel)] = r.passed]
          /\ last' = [handler |-> "capture_album",
                      input |-> [channel |-> channel, album_name |-> album_name,
                                 response |-> None],
                      events |-> <<r.events[1]>>]
  /\ status' = "blocked"
  /\ UNCHANGED msg

\* The blocked process is killed.
Kill ==
  /\ status = "blocked"
  /\ status' = "stopped"
  /\ channels' = <<>>
  /\ last' = [handler |-> "killed", input |-> None, events |-> <<>>]
  /\ UNCHANGED <<file, msg, lastSet>>

NextHang ==
  \/ Next
  \/ OnMessageHangs
  \/ CaptureAlbumHangs
  \/ Kill

SpecHang == Init /\ [][NextHang]_vars

\* C15: while a handler waits on a remote call that does not return, events
\* of the other channels are still handled: a message of another channel can
\* be handled (its flag is read) and a stop command of another channel can
\* run (its flag is written).
WaitingChannel ==
  IF last.handler = "on_message" THEN last.input.message.channel ELSE last.input.channel
C15_OtherChannelsStillHandled ==
  status = "blocked" =>
    /\ ENABLED (OnMessage /\ last'.input.message.channel # WaitingChannel)
    /\ ENABLED (StopCaptureAlbum /\ last'.input.channel # WaitingChannel)

\* C16: the upload time of every image submission is the creation time of the
\* message that carried the attachment (in ISO 8601 with a Z), not the reading
\* of the clock when the handler runs.
IsoZ(t) == <<Str(t), "Z">>
C16_UploadTimeIsCreationTime ==
  HandledMessage =>
    \A i \in PhotoPostIdx : Events[i].body.uploadTime = IsoZ(TheMessage.created_at)

\* C17: when a start/rename capture command is accepted and its album update
\* is answered with another status than 200, the flag the command set stays
\* True in the registry and in the backing file, the only reply is the error
\* message, and the album update is issued once (no retry).
SendIdx == {i \in 1..Len(Events) : Events[i].type = "send"}
AlbumUpdateFailed ==
  HandledCapture /\ \E i \in AlbumPostIdx : Events[i].status # StatusOK
C17_FailedUpdateKeepsCapture ==
  AlbumUpdateFailed =>
    /\ FlagIsTrue(last.input.channel)
    /\ file.exists
    /\ JsonLoad(file.text).ok
    /\ DictGet(JsonLoad(file.text).value, Str(last.input.channel), FALSE)
    /\ Cardinality(AlbumPostIdx) = 1
    /\ Cardinality(SendIdx) = 1
    /\ \A i \in SendIdx : Events[i] = Send(FailText)

\* A start with an album name is answered with 500: the flag is True and the
\* user got the error message.
C17_Witness ==
  /\ AlbumUpdateFailed
  /\ last.input.album_name = "holiday"
  /\ \E i \in AlbumPostIdx : Events[i].status = 500
  /\ FlagIsTrue(last.input.channel)
  /\ \E i \in SendIdx : Events[i] = Send(FailText)

\* C18: when the bot is constructed and there is no backing file, the
\* registry is empty (every channel reads False) and the bot runs; when the
\* file exists and is not well-formed, construction fails with the error
\* raised by the load, and the bot never runs on a file that does not parse.
Constructed == last.handler = "__init__"
C18_InitFailsOnInvalidFile ==
  /\ Constructed =>
       IF ~last.input.exists
       THEN /\ status = "running"
            /\ channels = <<>>
            /\ \A k \in ChannelKeys : ~CaptureOn(channels, k)
            /\ Events = <<>>
       ELSE ~JsonWellFormed(last.input.text) =>
              /\ status = "failed"
              /\ Events = <<Raise("JSONDecodeError")>>
  /\ (file.exists /\ ~JsonWellFormed(file.text)) => status # "running"

\* The bot was started on a file that a killed write left cut short, and the
\* construction failed.
C18_Witness ==
  /\ Constructed
  /\ last.input.exists
  /\ last.input.text # <<>>
  /\ ~JsonWellFormed(last.input.text)
  /\ status = "failed"

\* C19: ingestion and deletion agree on the attachments of a captured
\* message (one that bears the bot's camera): on a user's cross mark, a
\* deletion request is issued for an attachment if and only if an image
\* submission was issued for it when the message was handled, a URL with a
\* query string included, and the deletion request carries the URL that the
\* submission carried.
SubmittedUrls(message, a) ==
  {message.submitted[k].url : k \in {j \in 1..Len(message.submitted) : message.submitted[j].att = a}}
DeletedUrls(message, a) ==
  {Events[i].body.photoId : i \in {j \in DeletionPostIdx : Events[j].body.photoId = message.attachments[a]}}
C19_DeletionMatchesIngestion ==
  (/\ ReactionByUser
   /\ last.input.payload.emoji = CrossMark
   /\ BearsBotCamera(last.input.message)) =>
     \A a \in 1..Len(last.input.message.attachments) :
        /\ (DeletedUrls(last.input.message, a) # {})
             <=> (SubmittedUrls(last.input.message, a) # {})
        /\ DeletedUrls(last.input.message, a) \subseteq SubmittedUrls(last.input.message, a)

\* C20: within the handling of one message, every image submission comes
\* before the camera reaction and the camera reaction, when there is one,
\* comes before the delegation to command processing; every attachment of a
\* captured message whose extension is in the allow-list is submitted exactly
\* once, and no attachment more than once.
SubmissionsOf(a) == {i \in PhotoPostIdx : Events[i].att = a}
====
